---- MODULE Spec2Model ----
(***************************************************************************)
(* unpack.py: the command-line wrapper that extracts the card table of a   *)
(* game image by running the extractor binary with its standard output     *)
(* redirected to <output_dir>/card_table.json.                             *)
(*                                                                         *)
(* Spec          the wrapper (unpack.py) and the child process it starts.  *)
(*               The child is an arbitrary process: it may write any bytes *)
(*               to its standard output and exit with any code.            *)
(* PipelineSpec  the extractor's own pipeline, as its design describes it  *)
(*               (its source is not part of unpack.py).                    *)
(*                                                                         *)
(* A string is a sequence of atoms.  An atom is one character of Alphabet  *)
(* for the strings the caller supplies; a literal of the program that is   *)
(* never inspected character by character is written as a single atom.     *)
(***************************************************************************)
EXTENDS Integers, Sequences, FiniteSets, TLC

VARIABLES
    argv,        \* sys.argv[1:]
    pc,          \* the wrapper's position
    game_file,   \* main's local
    output_dir,  \* main's local
    stdout,      \* what the wrapper printed, in order
    exitCode,    \* the wrapper's exit code, Running until it terminates
    files,       \* the file system: path -> [exists, data]
    opened,      \* every open(path, 'w') the wrapper made, in order
    handle,      \* the paths the wrapper holds open
    launches,    \* every subprocess.Popen the wrapper made, in order
    proc,        \* the child: "none", "running", "exited"
    procExit,    \* the child's exit code once it exited
    waits,       \* the exit codes proc.wait() returned, in order
    image,       \* extractor: the game image given to it
    xstate,      \* extractor: the pipeline's state
    xerr,        \* extractor: the failure, once Failed
    location,    \* extractor: the CardTableLocation
    table,       \* extractor: the records decoded so far
    xout,        \* extractor: what it wrote to its output
    xhist        \* extractor: the pipeline states visited, in order

wvars == <<argv, pc, game_file, output_dir, stdout, exitCode, files, opened,
           handle, launches, proc, procExit, waits>>
xvars == <<image, xstate, xerr, location, table, xout, xhist>>
vars == <<argv, pc, game_file, output_dir, stdout, exitCode, files, opened,
          handle, launches, proc, procExit, waits,
          image, xstate, xerr, location, table, xout, xhist>>

(***************************************************************************)
(* Bounds                                                                  *)
(***************************************************************************)
MaxLen == 5
MaxExit == 2
MaxOut == 2

Alphabet == {".", "b", "i", "n", "B", "I", "N"}

\* The strings of n characters a caller may pass as the game file.
StringsOfLen(n) == [1..n -> Alphabet]

\* The output directories a caller passes as the second argument.
OutDirs == {<<>>, <<"o">>}

\* The command lines: no argument, a game file, a game file and a directory.
ArgCounts == 0..2

ExitCodes == 0..MaxExit

\* The bytes of a game image, and the images given to the extractor.
MaxByte == 2
MaxImageLen == 6

Bytes == 0..MaxByte

BytesOfLen(n) == [1..n -> Bytes]

Images ==
    {[status |-> "missing", bytes |-> <<>>]}
    \cup {[status |-> st, bytes |-> bs] :
            st \in {"present", "unreadable"},
            bs \in UNION {BytesOfLen(n) : n \in 0..MaxImageLen}}

OutBytes == {"[", "]"}

(***************************************************************************)
(* Values                                                                  *)
(***************************************************************************)
None == <<"None">>
Running == -1

Range(s) == {s[i] : i \in 1..Len(s)}

\* str.lower(), on the characters of Alphabet.
LowerChar(c) ==
    CASE c = "B" -> "b"
      [] c = "I" -> "i"
      [] c = "N" -> "n"
      [] OTHER -> c

Lower(s) == [i \in 1..Len(s) |-> LowerChar(s[i])]

\* str.endswith(suffix)
EndsWith(s, suffix) ==
    /\ Len(s) >= Len(suffix)
    /\ SubSeq(s, Len(s) - Len(suffix) + 1, Len(s)) = suffix

DotBin == <<".", "b", "i", "n">>

\* not game_file.lower().endswith('.bin')
IsBinNoDot(g) == EndsWith(Lower(g), <<"b", "i", "n">>)
IsBin(g) == EndsWith(Lower(g), DotBin)

\* output_dir = "./game"
DefaultOutputDir == <<".", "/", "game">>

\* f"{output_dir}/card_table.json"
OutputFileNoDir(dir) == <<"card_table.json">>
OutputFile(dir) == dir \o <<"/", "card_table.json">>

\* args = ["cargo", "run", "--bin", "dcb-extract-card-table", "--", game_file]
ExtractArgsNoFile(g) ==
    << <<"cargo">>, <<"run">>, <<"--bin">>, <<"dcb-extract-card-table">>, <<"--">> >>
ExtractArgs(g) ==
    << <<"cargo">>, <<"run">>, <<"--bin">>, <<"dcb-extract-card-table">>, <<"--">>, g >>

\* The files of the file system the model follows.
Paths == {OutputFile(d) : d \in OutDirs \cup {DefaultOutputDir}}

Absent == [exists |-> FALSE, data |-> <<>>]
Old == [exists |-> TRUE, data |-> <<"old">>]

UsageMsg == [text |-> "Usage: <game-file> [output-dir]", args |-> <<>>]
\* The message of main's extension check (its back quotes left out).
BadExtMsg == [text |-> "The game file must bea .bin file", args |-> <<>>]
FailedMsg == [text |-> "Failed to extract card table", args |-> <<>>]
DoneMsg(g, d) == [text |-> "", args |-> <<g, d>>]

(***************************************************************************)
(* The extractor's pipeline at rest (Spec leaves it alone).                *)
(***************************************************************************)
NoImage == [status |-> "missing", bytes |-> <<>>]
NoError == [kind |-> "none", index |-> -1]
NoLocation == [offset |-> 0, stride |-> 0, count |-> 0]
NoOutput == [written |-> FALSE, array |-> <<>>]

XIdle ==
    /\ image = NoImage
    /\ xstate = "Idle"
    /\ xerr = NoError
    /\ location = NoLocation
    /\ table = <<>>
    /\ xout = NoOutput
    /\ xhist = <<>>

(***************************************************************************)
(* The wrapper                                                             *)
(***************************************************************************)
Init ==
    /\ \E n \in ArgCounts, len \in 0..MaxLen :
          \E g \in StringsOfLen(len), d \in OutDirs :
             argv = SubSeq(<<g, d>>, 1, n)
    /\ pc = "get_args"
    /\ game_file = None
    /\ output_dir = None
    /\ stdout = <<>>
    /\ exitCode = Running
    /\ \E before \in {Absent, Old} : files = [p \in Paths |-> before]
    /\ opened = <<>>
    /\ handle = {}
    /\ launches = <<>>
    /\ proc = "none"
    /\ procExit = Running
    /\ waits = <<>>
    /\ XIdle

\* exit(code): SystemExit leaves every `with` block, closing its file.
Exit(code) ==
    /\ pc' = "exited"
    /\ exitCode' = code
    /\ handle' = {}

\* get_args() that carries on with "" as the game file when none is given.
GetArgsNoUsage ==
    /\ pc = "get_args"
    /\ game_file' = IF Len(argv) >= 1 THEN argv[1] ELSE <<>>
    /\ output_dir' = IF Len(argv) >= 2 THEN argv[2] ELSE DefaultOutputDir
    /\ pc' = "check_ext"
    /\ UNCHANGED <<argv, stdout, exitCode, files, opened, handle, launches,
                   proc, procExit, waits>>
    /\ UNCHANGED xvars

\* get_args()
GetArgs ==
    /\ pc = "get_args"
    /\ IF Len(argv) < 1
       THEN /\ stdout' = Append(stdout, UsageMsg)
            /\ Exit(1)
            /\ UNCHANGED <<game_file, output_dir>>
       ELSE /\ game_file' = argv[1]
            /\ output_dir' = IF Len(argv) >= 2 THEN argv[2] ELSE DefaultOutputDir
            /\ pc' = "check_ext"
            /\ UNCHANGED <<stdout, exitCode, handle>>
    /\ UNCHANGED <<argv, files, opened, launches, proc, procExit, waits>>
    /\ UNCHANGED xvars

\* main: if not game_file.lower().endswith('.bin'): print(...); exit(1)
CheckExt ==
    /\ pc = "check_ext"
    /\ IF ~IsBin(game_file)
       THEN /\ stdout' = Append(stdout, BadExtMsg)
            /\ Exit(1)
       ELSE /\ pc' = "open"
            /\ UNCHANGED <<stdout, exitCode, handle>>
    /\ UNCHANGED <<argv, game_file, output_dir, files, opened, launches,
                   proc, procExit, waits>>
    /\ UNCHANGED xvars

\* extract_card_table: with open(output_file, 'w') as f
\* open creates or truncates the file; when it raises (the directory is
\* missing, say) the exception is not caught and the interpreter exits with 1.
OpenOutput ==
    /\ pc = "open"
    /\ LET output_file == OutputFile(output_dir) IN
       \E ok \in BOOLEAN :
          IF ok
          THEN /\ files' = [files EXCEPT ![output_file] = [exists |-> TRUE, data |-> <<>>]]
               /\ opened' = Append(opened, output_file)
               /\ handle' = {output_file}
               /\ pc' = "popen"
               /\ UNCHANGED <<stdout, exitCode>>
          ELSE /\ Exit(1)
               /\ UNCHANGED <<files, opened, stdout>>
    /\ UNCHANGED <<argv, game_file, output_dir, launches, proc, procExit, waits>>
    /\ UNCHANGED xvars

\* extract_card_table: proc = subprocess.Popen(args, stdout=f)
\* When Popen raises (no cargo on the PATH) the with block closes the file
\* and the interpreter exits with 1.
Launch ==
    /\ pc = "popen"
    /\ LET output_file == OutputFile(output_dir) IN
       \E ok \in BOOLEAN :
          IF ok
          THEN /\ launches' = Append(launches,
                     [args |-> ExtractArgs(game_file), stdout |-> output_file])
               /\ proc' = "running"
               /\ pc' = "wait"
               /\ UNCHANGED <<exitCode, handle>>
          ELSE /\ Exit(1)
               /\ UNCHANGED <<launches, proc>>
    /\ UNCHANGED <<argv, game_file, output_dir, stdout, files, opened, procExit, waits>>
    /\ UNCHANGED xvars

\* The child writes to its standard output, which is the output file.
ChildWrite ==
    /\ proc = "running"
    /\ LET out == launches[Len(launches)].stdout IN
       /\ Len(files[out].data) < MaxOut
       /\ \E b \in OutBytes :
             files' = [files EXCEPT ![out].data = Append(@, b)]
    /\ UNCHANGED <<argv, pc, game_file, output_dir, stdout, exitCode, opened,
                   handle, launches, proc, procExit, waits>>
    /\ UNCHANGED xvars

\* The child terminates.
ChildExit ==
    /\ proc = "running"
    /\ \E code \in ExitCodes :
          /\ proc' = "exited"
          /\ procExit' = code
    /\ UNCHANGED <<argv, pc, game_file, output_dir, stdout, exitCode, files,
                   opened, handle, launches, waits>>
    /\ UNCHANGED xvars

\* proc.wait() whose failure is not acted on.
WaitIgnore ==
    /\ pc = "wait"
    /\ proc = "exited"
    /\ waits' = Append(waits, procExit)
    /\ handle' = {}
    /\ pc' = "print"
    /\ UNCHANGED <<stdout, exitCode>>
    /\ UNCHANGED <<argv, game_file, output_dir, files, opened, launches, proc, procExit>>
    /\ UNCHANGED xvars

\* proc.wait() with the test inverted.
WaitInverted ==
    /\ pc = "wait"
    /\ proc = "exited"
    /\ waits' = Append(waits, procExit)
    /\ IF procExit = 0
       THEN /\ stdout' = Append(stdout, FailedMsg)
            /\ Exit(1)
       ELSE /\ handle' = {}
            /\ pc' = "print"
            /\ UNCHANGED <<stdout, exitCode>>
    /\ UNCHANGED <<argv, game_file, output_dir, files, opened, launches, proc, procExit>>
    /\ UNCHANGED xvars

\* proc.wait() that starts the extractor again when it failed.
WaitRetry ==
    /\ pc = "wait"
    /\ proc = "exited"
    /\ waits' = Append(waits, procExit)
    /\ IF procExit # 0
       THEN /\ Len(launches) < 2
            /\ pc' = "popen"
            /\ UNCHANGED <<stdout, exitCode, handle>>
       ELSE /\ handle' = {}
            /\ pc' = "print"
            /\ UNCHANGED <<stdout, exitCode>>
    /\ UNCHANGED <<argv, game_file, output_dir, files, opened, launches, proc, procExit>>
    /\ UNCHANGED xvars

\* extract_card_table: if proc.wait() != 0: print(...); exit(1)
\* and, when it is 0, the end of the with block, which closes the file.
Wait ==
    /\ pc = "wait"
    /\ proc = "exited"
    /\ waits' = Append(waits, procExit)
    /\ IF procExit # 0
       THEN /\ stdout' = Append(stdout, FailedMsg)
            /\ Exit(1)
       ELSE /\ handle' = {}
            /\ pc' = "print"
            /\ UNCHANGED <<stdout, exitCode>>
    /\ UNCHANGED <<argv, game_file, output_dir, files, opened, launches, proc, procExit>>
    /\ UNCHANGED xvars

\* main: print(game_file, output_dir), and the interpreter's normal end.
PrintDone ==
    /\ pc = "print"
    /\ stdout' = Append(stdout, DoneMsg(game_file, output_dir))
    /\ pc' = "exited"
    /\ exitCode' = 0
    /\ UNCHANGED <<argv, game_file, output_dir, files, opened, handle, launches,
                   proc, procExit, waits>>
    /\ UNCHANGED xvars

Next ==
    \/ GetArgs
    \/ CheckExt
    \/ OpenOutput
    \/ Launch
    \/ ChildWrite
    \/ ChildExit
    \/ Wait
    \/ PrintDone

Spec == Init /\ [][Next]_vars

(***************************************************************************)
(* The extractor's pipeline                                                *)
(*   Start -> ImageOpened -> LocationResolved -> (N x RecordDecoded)       *)
(*         -> TableBuilt -> Serialized -> Done,   any failure -> Failed    *)
(* An image is a byte sequence: byte 0 is the header's signature, byte 1   *)
(* its entry count, and the card table follows the header.                 *)
(***************************************************************************)
Magic == 1
HeaderLen == 2
Stride == 2
InvalidId == 0

Failure(kind, index) == [kind |-> kind, index |-> index]

\* Image Reader: readAt(offset, length), offsets counted from 0.
InBounds(bytes, offset, length) == offset + length <= Len(bytes)
ReadAt(bytes, offset, length) == SubSeq(bytes, offset + 1, offset + length)

\* Record Decoder: decode(bytes[stride]); an id of InvalidId is reserved.
WellFormed(rec) == rec[1] # InvalidId
Decode(rec) == [id |-> rec[1], stat |-> rec[2]]

\* Serializer: one JSON object per record, in the table's order.
ToJson(t) == [written |-> TRUE, array |-> [i \in 1..Len(t) |-> [id |-> t[i].id, stat |-> t[i].stat]]]

\* The wrapper at rest (PipelineSpec leaves it alone).
WIdle ==
    /\ argv = <<>>
    /\ pc = "get_args"
    /\ game_file = None
    /\ output_dir = None
    /\ stdout = <<>>
    /\ exitCode = Running
    /\ files = [p \in Paths |-> Absent]
    /\ opened = <<>>
    /\ handle = {}
    /\ launches = <<>>
    /\ proc = "none"
    /\ procExit = Running
    /\ waits = <<>>

PipeInit ==
    /\ image \in Images
    /\ xstate = "Start"
    /\ xerr = NoError
    /\ location = NoLocation
    /\ table = <<>>
    /\ xout = NoOutput
    /\ xhist = <<"Start">>
    /\ WIdle

\* A step of the pipeline to state s.
Goto(s) ==
    /\ xstate' = s
    /\ xhist' = Append(xhist, s)

\* Any failure goes directly to the terminal Failed(kind).
Fail(kind, index) ==
    /\ Goto("Failed")
    /\ xerr' = Failure(kind, index)

\* Image Reader: open(path)
OpenImage ==
    /\ xstate = "Start"
    /\ CASE image.status = "missing" -> Fail("NotFound", -1)
         [] image.status = "unreadable" -> Fail("IoError", -1)
         [] OTHER -> Goto("ImageOpened") /\ UNCHANGED xerr
    /\ UNCHANGED <<image, location, table, xout>>
    /\ UNCHANGED wvars

\* locate(image) that trusts the header without validating its signature.
LocateNoSignature ==
    /\ xstate = "ImageOpened"
    /\ IF ~InBounds(image.bytes, 0, HeaderLen)
       THEN Fail("InvalidFormat", -1) /\ UNCHANGED location
       ELSE LET header == ReadAt(image.bytes, 0, HeaderLen)
                count == header[2]
            IN  IF ~InBounds(image.bytes, HeaderLen, Stride * count)
                THEN Fail("OutOfBounds", -1) /\ UNCHANGED location
                ELSE /\ Goto("LocationResolved")
                     /\ location' = [offset |-> HeaderLen, stride |-> Stride, count |-> count]
                     /\ UNCHANGED xerr
    /\ UNCHANGED <<image, table, xout>>
    /\ UNCHANGED wvars

\* Layout Locator: locate(image)
Locate ==
    /\ xstate = "ImageOpened"
    /\ IF \/ ~InBounds(image.bytes, 0, HeaderLen)
          \/ ReadAt(image.bytes, 0, HeaderLen)[1] # Magic
       THEN Fail("InvalidFormat", -1) /\ UNCHANGED location
       ELSE LET header == ReadAt(image.bytes, 0, HeaderLen)
                count == header[2]
            IN  IF ~InBounds(image.bytes, HeaderLen, Stride * count)
                THEN Fail("OutOfBounds", -1) /\ UNCHANGED location
                ELSE /\ Goto("LocationResolved")
                     /\ location' = [offset |-> HeaderLen, stride |-> Stride, count |-> count]
                     /\ UNCHANGED xerr
    /\ UNCHANGED <<image, table, xout>>
    /\ UNCHANGED wvars

\* build whose decoder accepts the reserved id.
DecodeNextNoValidate ==
    /\ xstate \in {"LocationResolved", "RecordDecoded"}
    /\ Len(table) < location.count
    /\ LET index == Len(table)
           at == location.offset + index * location.stride
       IN  IF ~InBounds(image.bytes, at, location.stride)
           THEN Fail("OutOfBounds", -1) /\ UNCHANGED table
           ELSE LET rec == ReadAt(image.bytes, at, location.stride) IN
                /\ Goto("RecordDecoded")
                /\ table' = Append(table, Decode(rec))
                /\ UNCHANGED xerr
    /\ UNCHANGED <<image, location, xout>>
    /\ UNCHANGED wvars

\* Table Builder: build(image, location), one index of 0 .. count-1
DecodeNext ==
    /\ xstate \in {"LocationResolved", "RecordDecoded"}
    /\ Len(table) < location.count
    /\ LET index == Len(table)
           at == location.offset + index * location.stride
       IN  IF ~InBounds(image.bytes, at, location.stride)
           THEN Fail("OutOfBounds", -1) /\ UNCHANGED table
           ELSE LET rec == ReadAt(image.bytes, at, location.stride) IN
                IF ~WellFormed(rec)
                THEN Fail("MalformedRecord", index) /\ UNCHANGED table
                ELSE /\ Goto("RecordDecoded")
                     /\ table' = Append(table, Decode(rec))
                     /\ UNCHANGED xerr
    /\ UNCHANGED <<image, location, xout>>
    /\ UNCHANGED wvars

\* Table Builder: build(image, location), every index decoded
FinishBuild ==
    /\ xstate \in {"LocationResolved", "RecordDecoded"}
    /\ Len(table) = location.count
    /\ Goto("TableBuilt")
    /\ UNCHANGED <<image, xerr, location, table, xout>>
    /\ UNCHANGED wvars

\* Serializer: serialize(table); the output stream may fail to be written.
Serialize ==
    /\ xstate = "TableBuilt"
    /\ \E ok \in BOOLEAN :
          IF ok
          THEN /\ Goto("Serialized")
               /\ xout' = ToJson(table)
               /\ UNCHANGED xerr
          ELSE /\ Fail("IoError", -1)
               /\ UNCHANGED xout
    /\ UNCHANGED <<image, location, table>>
    /\ UNCHANGED wvars

\* The end of the run.
Finish ==
    /\ xstate = "Serialized"
    /\ Goto("Done")
    /\ UNCHANGED <<image, xerr, location, table, xout>>
    /\ UNCHANGED wvars

PipeNext ==
    \/ OpenImage
    \/ Locate
    \/ DecodeNext
    \/ FinishBuild
    \/ Serialize
    \/ Finish

PipelineSpec == PipeInit /\ [][PipeNext]_vars

(***************************************************************************)
(* Properties of the wrapper (Spec)                                        *)
(***************************************************************************)
\* The output file main asks for: the second argument when one is given,
\* "./game" otherwise, then "/card_table.json".
ExpectedOutputFile ==
    (IF Len(argv) >= 2 THEN argv[2] ELSE <<".", "/", "game">>) \o <<"/", "card_table.json">>

\* The wrapper printed its final line, the game file and the output directory.
PrintedDone == \E i \in 1..Len(stdout) : stdout[i].text = ""

\* No file of the file system was created, truncated or written.
FilesUntouched == \A p \in Paths : files[p] \in {Absent, Old}

\* The game-file argument ends in ".bin", compared without regard to case.
EndsInBinAnyCase(g) ==
    /\ Len(g) >= 4
    /\ g[Len(g) - 3] = "."
    /\ g[Len(g) - 2] \in {"b", "B"}
    /\ g[Len(g) - 1] \in {"i", "I"}
    /\ g[Len(g)] \in {"n", "N"}

\* C1: once the extractor the wrapper launched has terminated with a
\* non-zero exit code, the wrapper never prints its final success line, and
\* when it terminates it has printed the failure message and exits with 1.
C1_FailureReported ==
    (proc = "exited" /\ procExit # 0) =>
        /\ ~PrintedDone
        /\ pc # "print"
        /\ pc = "exited" => (exitCode = 1 /\ stdout = <<FailedMsg>>)

C1_Witness ==
    /\ proc = "exited"
    /\ procExit # 0
    /\ pc = "exited"
    /\ waits = <<procExit>>

\* C2 as stated: every launch of the extractor passes both the input image
\* path and the output JSON path as arguments.
C2_BothPathsAreArguments ==
    \A i \in 1..Len(launches) :
        {game_file, launches[i].stdout} \subseteq Range(launches[i].args)

\* C2, amended: every launch of the extractor passes the input image path
\* as the only argument after "cargo run --bin dcb-extract-card-table --";
\* the output JSON path is not an argument, it is the file the extractor's
\* standard output is redirected to.
C2_OnlyInputPathIsArgument ==
    \A i \in 1..Len(launches) :
        /\ launches[i].args =
              << <<"cargo">>, <<"run">>, <<"--bin">>, <<"dcb-extract-card-table">>,
                 <<"--">>, argv[1] >>
        /\ launches[i].stdout = ExpectedOutputFile
        /\ launches[i].stdout \notin Range(launches[i].args)

C2_Witness ==
    /\ Len(launches) = 1
    /\ Len(argv) = 2
    /\ proc = "running"

\* C3: every launch of the extractor has its standard output redirected to
\* <output_dir>/card_table.json, output_dir being the second argument when
\* given and "./game" when omitted, and the wrapper opens no other file for
\* writing.
C3_OutputRedirected ==
    /\ \A i \in 1..Len(launches) :
          /\ launches[i].stdout = ExpectedOutputFile
          /\ i <= Len(opened)
          /\ opened[i] = launches[i].stdout
    /\ \A i \in 1..Len(opened) : opened[i] = ExpectedOutputFile
    /\ \A p \in Paths \ {ExpectedOutputFile} : files[p] \in {Absent, Old}
    /\ handle \subseteq {ExpectedOutputFile}

C3_Witness ==
    /\ Len(launches) = 1
    /\ Len(argv) = 1
    /\ launches[1].stdout = <<".", "/", "game", "/", "card_table.json">>
    /\ files[launches[1].stdout].data # <<>>

\* C4: in a run whose game-file argument does not end in ".bin" (compared
\* case-insensitively) the extractor is never launched, the output file is
\* never opened or truncated, and the wrapper terminates with exit code 1;
\* no file is opened and nothing is launched before the check has passed.
C4_ExtensionCheckedFirst ==
    /\ (Len(argv) >= 1 /\ ~EndsInBinAnyCase(argv[1])) =>
          /\ launches = <<>>
          /\ opened = <<>>
          /\ FilesUntouched
          /\ pc \in {"get_args", "check_ext", "exited"}
          /\ pc = "exited" => (exitCode = 1 /\ stdout = <<BadExtMsg>>)
    /\ pc \in {"get_args", "check_ext"} =>
          (launches = <<>> /\ opened = <<>> /\ FilesUntouched)

C4_Witness ==
    /\ Len(argv) >= 1
    /\ Len(argv[1]) = 5
    /\ argv[1] = <<".", "B", "I", "N", ".">>
    /\ stdout = <<BadExtMsg>>
    /\ pc = "exited"

\* C5 as stated: when the wrapper terminates after the extractor exited
\* non-zero, card_table.json is absent or empty.
C5_NoPartialOutputOnFailure ==
    (pc = "exited" /\ Len(waits) >= 1 /\ waits[1] # 0) =>
        \/ ~files[ExpectedOutputFile].exists
        \/ files[ExpectedOutputFile].data = <<>>

\* C6: the extractor is launched at most once in a run, and once it has
\* terminated the wrapper launches nothing more.
C6_LaunchedAtMostOnce ==
    /\ Len(launches) <= 1
    /\ Len(waits) <= 1
    /\ proc = "exited" => Len(launches) = 1

C6_Witness ==
    /\ proc = "exited"
    /\ procExit # 0
    /\ pc = "exited"
    /\ Len(launches) = 1

\* C9: started with no game-file argument, the wrapper prints the usage line
\* and terminates with exit code 1, without the extension check, without
\* opening or truncating a file and without launching the extractor.
C9_UsageOnMissingArgument ==
    argv = <<>> =>
        /\ pc \in {"get_args", "exited"}
        /\ pc = "exited" => (exitCode = 1 /\ stdout = <<UsageMsg>>)
        /\ game_file = None
        /\ opened = <<>>
        /\ launches = <<>>
        /\ FilesUntouched

C9_Witness ==
    /\ argv = <<>>
    /\ pc = "exited"
    /\ stdout = <<UsageMsg>>

\* C10: the final print of (game_file, output_dir) and the exit code 0 occur
\* only after the extractor was launched, the wrapper waited for it and its
\* exit code was 0.
C10_SuccessOnlyAfterExtractorSucceeded ==
    (pc = "print" \/ PrintedDone \/ exitCode = 0) =>
        /\ Len(launches) = 1
        /\ proc = "exited"
        /\ procExit = 0
        /\ waits = <<0>>

C10_Witness ==
    /\ exitCode = 0
    /\ stdout = <<DoneMsg(argv[1], <<".", "/", "game">>)>>

(***************************************************************************)
(* Properties of the extractor's pipeline (PipelineSpec)                   *)
(***************************************************************************)
\* The image is there and its header's signature byte is not the expected one.
SignatureCorrupted ==
    /\ image.status = "present"
    /\ Len(image.bytes) >= 1
    /\ image.bytes[1] # 1

\* The image has a valid header and a card table region inside the image.
TableInImage ==
    /\ image.status = "present"
    /\ Len(image.bytes) >= 2
    /\ image.bytes[1] = 1
    /\ 2 + 2 * image.bytes[2] <= Len(image.bytes)

\* Record i of the card table (counted from 0) holds the reserved id.
Malformed(i) == image.bytes[2 + 2 * i + 1] = 0

MalformedIndices == {i \in 0..(image.bytes[2] - 1) : Malformed(i)}

\* C7: an image whose header signature is corrupted ends the run in
\* Failed(InvalidFormat) and no RecordDecoded state is ever reached.
C7_CorruptSignatureFailsBeforeDecoding ==
    SignatureCorrupted =>
        /\ "RecordDecoded" \notin Range(xhist)
        /\ table = <<>>
        /\ xstate \in {"Start", "ImageOpened", "Failed"}
        /\ xstate = "Failed" => xerr = Failure("InvalidFormat", -1)

C7_Witness ==
    /\ SignatureCorrupted
    /\ Len(image.bytes) = 4
    /\ image.bytes[2] = 1
    /\ image.bytes[3] # 0
    /\ xstate = "Failed"

\* C8: a malformed record among indices 0 .. count-1 aborts the run with
\* MalformedRecord carrying the first malformed index; the run reaches
\* neither TableBuilt nor Serialized and writes no output.
C8_MalformedRecordAborts ==
    (TableInImage /\ MalformedIndices # {}) =>
        /\ Range(xhist) \cap {"TableBuilt", "Serialized", "Done"} = {}
        /\ xout = NoOutput
        /\ xstate = "Failed" =>
              /\ xerr.kind = "MalformedRecord"
              /\ xerr.index \in MalformedIndices
              /\ \A i \in MalformedIndices : xerr.index <= i
              /\ Len(table) = xerr.index

C8_Witness ==
    /\ TableInImage
    /\ image.bytes[2] = 2
    /\ ~Malformed(0)
    /\ Malformed(1)
    /\ xstate = "Failed"
    /\ xerr = Failure("MalformedRecord", 1)

====
